---- MODULE Spec2Model ----
(***************************************************************************)
(* rpl: the chunked transfer pipeline.                                     *)
(*   torrent_parser.rs  TorrentPack::chunks   the chunk planner            *)
(*   mod.rs             build_queue           the job queue builder        *)
(*   qbittorrent.rs     Job::download         the remote job state machine *)
(*   rclone.rs          Job::upload           the transfer monitor         *)
(*   qbittorrent.rs     leech_torrent         the orchestrator             *)
(***************************************************************************)
EXTENDS Integers, Sequences, FiniteSets, TLC

\* ------------------------------------------------------------------ bounds
\* Longest pack (number of files) drawn as input.
MaxFiles == 3
\* Largest file length and largest chunk budget drawn as input.
MaxLen == 3
\* Largest file length and largest chunk budget where the planner and the
\* queue builder are followed on their own.
MaxPlanLen == 5
\* Largest --skip value drawn as input.
MaxSkip == 2
\* Most stderr lines one sync-tool subprocess writes before it exits.
MaxLines == 2
\* Most polls of one call of download that see pausedDL, and most that see
\* unknown, where the history of the call is kept.
MaxRecoveries == 2

\* ------------------------------------------------------- program constants
\* `if retry <= 3` in Job::download.
RetryLimit == 3
\* `let mut retry = 1` in Job::download.
RetryStart == 1
\* `let mut current_chunk: i32 = 1` in chunks() and `let mut current_chunk = 1`
\* in build_queue().
FirstChunk == 1
\* RplFile.chunk of a file that is larger than the budget.
Excluded == -1
\* set_priority(&hash, disable_string, 0): priority 0 is "do not download".
DoNotDownload == 0
VARIABLES
    \* inputs of the run
    files,           \* torrent.files: sequence of [path, length]
    files_is_none,   \* torrent.files is None: `files` holds torrent.name and
                     \* torrent.length of a single-file torrent
    max_size_allow,  \* TorrentPack.max_size_allow
    ignore_warning,  \* TorrentPack.ignore_warning (-f/--force)
    skip,            \* leech_torrent's skip argument
    seed_enable,     \* SeedSettings.seed_enable, "unread" until line 546 reads it
    \* leech_torrent locals
    pc,              \* position in leech_torrent / download / upload
    result,          \* what leech_torrent returned: "none", "Ok" or an error
    chunks,          \* what chunks() returned: [err, map: path -> RplFile]
    queue,           \* what build_queue returned: [status, no_all_files, job]
    jobIdx,          \* position of `for job in jobs`
    offset,          \* `let mut offset = 0`
    skipped,         \* `let mut skipped = skip`
    \* Job::download locals
    retry,           \* `let mut retry = 1`
    state,           \* `state` of the loop iteration under way
    recState,        \* the state whose recovery is in progress, "none" otherwise
    retry_state,     \* `retry_state`: what the re-check of a recovery saw
    pb_position,     \* position of download's progress bar
    dlRet,           \* what download returned
    \* Job::upload locals and the sync-tool subprocess
    child,           \* "none", "running", "exited"
    exit_code,       \* exit status of the subprocess, -1 while it has none
    up_position,     \* position of upload's progress bar
    nLines,          \* stderr lines read so far
    upRet,           \* what upload returned
    \* the download agent
    agentJobs,       \* chunk numbers whose job exists in the agent (0: seed job)
    agentEnabled,    \* global file indices (0-based) with priority # 0
    agentRunning,    \* the job has been resumed
    \* history
    trace,           \* whether the history of one download is being kept
    issued,          \* chunk -> commands issued for it
    returned,        \* chunk -> commands that returned success for it
    onlyErr,         \* every status query of this call saw error/missingFiles
    nObs,            \* state -> polls of this call that saw it and did not return Ok
    nRec,            \* state -> resumes re-issued in reaction to it, this call
    recLog,          \* steps of the recovery under way, oldest first
    last_line,       \* the stderr line upload read last
    added,           \* the QbitTorrent of the last add_new_torrent request
    replan,          \* what a second call of chunks() returned
    spent,           \* an earlier call of download in this run used a recovery
    http             \* the last request to the agent: [op, status, body, ret]

vars == <<files, files_is_none, max_size_allow, ignore_warning, skip, seed_enable, pc, result,
          chunks, queue, jobIdx, offset, skipped, retry, state, recState,
          retry_state, pb_position, dlRet, child, exit_code, up_position, nLines, upRet,
          agentJobs, agentEnabled, agentRunning, trace, issued, returned,
          onlyErr, nObs, nRec, recLog, last_line, added,
          replan, spent, http>>

inputVars ==
    <<files, files_is_none, max_size_allow, ignore_warning, skip, trace>>
earlierVars == <<spent>>
auxVars == <<recLog, last_line, added, replan, http>>
dlVars ==
    <<retry, state, recState, retry_state, pb_position, dlRet, onlyErr, nObs,
      nRec>>
upVars == <<child, exit_code, up_position, nLines, upRet>>
agentVars == <<agentJobs, agentEnabled, agentRunning>>
histVars == <<issued, returned>>

\* ---------------------------------------------------------------- helpers
RECURSIVE SumSet(_, _)
SumSet(S, f) ==
    IF S = {} THEN 0
    ELSE LET x == CHOOSE y \in S : TRUE IN f[x] + SumSet(S \ {x}, f)

Min(a, b) == IF a <= b THEN a ELSE b

\* HashMap::insert
Insert(map, key, value) ==
    [k \in DOMAIN map \cup {key} |-> IF k = key THEN value ELSE map[k]]

EmptyMap == [k \in {} |-> 0]

\* ----------------------------------------------------- the chunk planner
RplFile(filename, length, chunk) ==
    [filename |-> filename, length |-> length, chunk |-> chunk]

\* The last-file case: the chunk the last file of the pack goes to.
LastFileChunkNoClose(current_chunk, current_sum_size, length, max) ==
    current_chunk

\* A last-file rule that puts the file back into the first chunk when it fits
\* no more.
LastFileChunkBackToFirst(current_chunk, current_sum_size, length, max) ==
    IF current_sum_size + length > max THEN FirstChunk ELSE current_chunk

LastFileChunkAlwaysClose(current_chunk, current_sum_size, length, max) ==
    current_chunk + 1

LastFileChunk(current_chunk, current_sum_size, length, max) ==
    IF current_sum_size + length > max THEN current_chunk + 1 ELSE current_chunk

\* Whether a file is larger than the budget.
TooLargeOrEqual(length, max) == length >= max

TooLarge(length, max) == length > max

\* A fit test that answers no once a plan has been returned.
FitsFirstTime(current_sum_size, length, max) ==
    current_sum_size + length <= max /\ chunks.err = "unset"

\* A fit test that closes the chunk on an exact fit.
FitsStrictly(current_sum_size, length, max) == current_sum_size + length < max

\* Whether a file that is not the last fits the current chunk.
Fits(current_sum_size, length, max) == current_sum_size + length <= max

\* The `for (index, file) in file_vecs.iter().enumerate()` loop of chunks(),
\* from (1-based) position i on. st is [current_chunk, current_sum_size, map].
RECURSIVE ChunksLoop(_, _, _, _, _)
ChunksLoop(fs, max, force, i, st) ==
    IF i > Len(fs) THEN [err |-> "none", map |-> st.map]
    ELSE LET file == fs[i] IN
      IF TooLarge(file.length, max) THEN
        IF force
        THEN ChunksLoop(fs, max, force, i + 1,
               [st EXCEPT !.map = Insert(@, file.path,
                                         RplFile(file.path, file.length, Excluded))])
        ELSE [err |-> "MaxSizeAllowedTooSmall", map |-> EmptyMap]
      ELSE IF i = Len(fs) THEN
        LET cc == LastFileChunk(st.current_chunk, st.current_sum_size,
                                file.length, max)
        IN ChunksLoop(fs, max, force, i + 1,
             [st EXCEPT !.current_chunk = cc,
                        !.map = Insert(@, file.path,
                                       RplFile(file.path, file.length, cc))])
      ELSE IF Fits(st.current_sum_size, file.length, max) THEN
        ChunksLoop(fs, max, force, i + 1,
             [st EXCEPT !.current_sum_size = @ + file.length,
                        !.map = Insert(@, file.path,
                                       RplFile(file.path, file.length,
                                               st.current_chunk))])
      ELSE
        ChunksLoop(fs, max, force, i + 1,
             [st EXCEPT !.current_chunk = @ + 1,
                        !.current_sum_size = file.length,
                        !.map = Insert(@, file.path,
                                       RplFile(file.path, file.length,
                                               st.current_chunk + 1))])

\* TorrentPack::chunks for a torrent without a file list: "This torrent
\* "pack" has only 1 file".
ChunksOfSingle(path, size, max, force) ==
    IF TooLarge(size, max)
    THEN IF force
         THEN [err |-> "none",
               map |-> Insert(EmptyMap, path, RplFile(path, size, Excluded))]
         ELSE [err |-> "MaxSizeAllowedTooSmall", map |-> EmptyMap]
    ELSE [err |-> "none",
          map |-> Insert(EmptyMap, path, RplFile(path, size, FirstChunk))]

\* TorrentPack::chunks for a pack with a file list.
ChunksOf(fs, max, force) ==
    ChunksLoop(fs, max, force, 1,
               [current_chunk |-> FirstChunk, current_sum_size |-> 0,
                map |-> EmptyMap])

\* ------------------------------------------------- the job queue builder
NewJob(chunk, total_size, no_files) ==
    [chunk |-> chunk, total_size |-> total_size, no_files |-> no_files]

\* "finish off last chunk"
FinishQueueNoPush(st) ==
    [status |-> "ok", no_all_files |-> st.no_all_files, job |-> st.job]

FinishQueue(st) ==
    [status |-> "ok", no_all_files |-> st.no_all_files,
     job |-> Append(st.job, NewJob(st.current_chunk, st.total_size, st.files))]

\* The `for f in torrent.files.unwrap()` loop of build_queue, from position i.
\* st is [current_chunk, total_size, job, files, no_all_files].
RECURSIVE BuildQueueLoop(_, _, _, _)
BuildQueueLoop(datamap, fs, i, st) ==
    IF i > Len(fs) THEN FinishQueue(st)
    ELSE IF fs[i].path \notin DOMAIN datamap
    THEN [status |-> "panic", no_all_files |-> st.no_all_files + 1,
          job |-> st.job]
    ELSE
      LET file == datamap[fs[i].path]
          st1 == [st EXCEPT !.no_all_files = @ + 1]
      IN IF file.chunk < 0 THEN BuildQueueLoop(datamap, fs, i + 1, st1)
         ELSE LET st2 == IF file.chunk # st1.current_chunk
                         THEN [st1 EXCEPT
                                 !.job = Append(@, NewJob(st1.current_chunk,
                                                          st1.total_size,
                                                          st1.files)),
                                 !.files = 0,
                                 !.total_size = 0,
                                 !.current_chunk = @ + 1]
                         ELSE st1
              IN BuildQueueLoop(datamap, fs, i + 1,
                   [st2 EXCEPT !.files = @ + 1,
                               !.total_size = @ + file.length])

build_queue(datamap, fs) ==
    BuildQueueLoop(datamap, fs, 1,
                   [current_chunk |-> FirstChunk, total_size |-> 0, job |-> <<>>,
                    files |-> 0, no_all_files |-> 0])

\* Before chunks() and build_queue() have been called.
NoChunks == [err |-> "unset", map |-> EmptyMap]
NoQueue == [status |-> "unset", no_all_files |-> 0, job |-> <<>>]

\* ------------------------------------------------------ the agent's states
WaitingStates == {"moving", "allocating", "metaDL"}
DownloadingStates ==
    {"downloading", "stalledDL", "queuedDL", "forcedDL", "checkingDL"}
ErrorStates == {"error", "missingFiles"}
RetryOnceStates == {"pausedDL", "unknown"}
CompleteStatesAndStalledDL ==
    {"pausedUP", "stalledUP", "uploading", "queuedUP", "forcedUP", "checkingUP",
     "stalledDL"}
CompleteStates ==
    {"pausedUP", "stalledUP", "uploading", "queuedUP", "forcedUP", "checkingUP"}
States ==
    WaitingStates \cup DownloadingStates \cup ErrorStates \cup RetryOnceStates
        \cup CompleteStates \cup {"checkingResumeData"}

\* Chunk numbers the history is kept for; 0 stands for the seed-back job.
SeedJob == 0
ChunkIds == 0..(MaxFiles + 1)

NoHistory == [c \in ChunkIds |-> {}]

\* The states download reacts to with a recovery, and their counters.
RecoveryStates == ErrorStates \cup RetryOnceStates
NoCounts == [s \in RecoveryStates |-> 0]

\* `x as u64` of an i64: the value is wraps * 2^64 + rem.
AsU64(x) == [wraps |-> IF x < 0 THEN 1 ELSE 0, rem |-> x]

\* QbitTorrent::default(): every field None. Of its fields the model keeps
\* the three the orchestrator sets.
NoTorrent == [savepath |-> "None", skip_checking |-> "None", paused |-> "None"]

\* pub fn save_path(mut self, path: PathBuf) -> Self
save_path(torrent, path) == [torrent EXCEPT !.savepath = path]

\* A skip_hash_checking that leaves the field as it was.
skip_hash_checking_unset(torrent, skip_it) == torrent

\* pub fn skip_hash_checking(mut self, skip: bool) -> Self
skip_hash_checking(torrent, skip_it) ==
    [torrent EXCEPT !.skip_checking = IF skip_it THEN "true" ELSE "false"]

\* A paused() that leaves the field as it was.
paused_unset(torrent, p) == torrent

\* Whether the agent starts a job added with this QbitTorrent at once: it
\* does unless the form carries paused=true.
StartsAtOnce(torrent) == torrent.paused # "true"

\* pub fn paused(mut self, paused: bool) -> Self
paused(torrent, p) == [torrent EXCEPT !.paused = IF p THEN "true" ELSE "false"]

\* main.rs: QbitTorrent::default().torrents(..).paused(true).save_path(..)
torrent_config == save_path(paused(NoTorrent, TRUE), "save_path")

\* let seed_config = config.skip_hash_checking(true).save_path(seed_path)
seed_config == save_path(skip_hash_checking(torrent_config, TRUE), "seed_path")

\* The line read last, before any line was read: one without the marker.
NoLine ==
    [marker |-> FALSE, valid |-> FALSE, has_stats |-> FALSE, bytes |-> 0,
     has_speed |-> FALSE, speed |-> 0]

\* No request has been sent to the agent.
NoRequest == [op |-> "none", status |-> 0, body |-> "none", ret |-> "none"]

\* ------------------------------------------------------------------- Init
PackLengths(S) == UNION {[1..n -> S] : n \in 0..MaxFiles}

\* torrent.files of a pack whose files have the lengths lens; a file's path
\* is its position, so paths are unique.
FilesOf(lens) == [i \in 1..Len(lens) |-> [path |-> i, length |-> lens[i]]]

InitLocals ==
    /\ result = "none"
    /\ chunks = NoChunks
    /\ queue = NoQueue
    /\ jobIdx = 0
    /\ offset = 0
    /\ skipped = 0
    /\ retry = RetryStart
    /\ state = "none"
    /\ recState = "none"
    /\ retry_state = "none"
    /\ pb_position = AsU64(0)
    /\ dlRet = "none"
    /\ child = "none"
    /\ exit_code = -1
    /\ up_position = 0
    /\ nLines = 0
    /\ upRet = "none"
    /\ agentJobs = {}
    /\ agentEnabled = {}
    /\ agentRunning = FALSE
    /\ issued = NoHistory
    /\ returned = NoHistory
    /\ onlyErr = TRUE
    /\ nObs = NoCounts
    /\ nRec = NoCounts
    /\ recLog = <<>>
    /\ last_line = NoLine
    /\ added = NoTorrent
    /\ replan = NoChunks
    /\ http = NoRequest
    /\ spent = FALSE

\* A run of leech_torrent. A file is one byte long, fills the budget, or is
\* one byte over the budget.
Init ==
    /\ max_size_allow = MaxLen - 1
    /\ \E lens \in PackLengths({1, MaxLen - 1, MaxLen}) : files = FilesOf(lens)
    /\ files_is_none \in {b \in BOOLEAN : b => Len(files) = 1}
    /\ ignore_warning \in BOOLEAN
    /\ skip \in 0..MaxSkip
    /\ seed_enable \in BOOLEAN
    /\ pc = "start"
    /\ trace = FALSE
    /\ InitLocals

\* A call of chunks() followed by build_queue().
InitPlan ==
    /\ \E lens \in PackLengths(0..MaxPlanLen) : files = FilesOf(lens)
    /\ files_is_none \in {b \in BOOLEAN : b => Len(files) = 1}
    /\ max_size_allow \in 0..MaxPlanLen
    /\ ignore_warning \in BOOLEAN
    /\ skip = 0
    /\ seed_enable = FALSE
    /\ pc = "plan"
    /\ trace = FALSE
    /\ InitLocals

\* ------------------------------------------------------------ the planner
\* self.chunks() on the pack of this run.
ChunksCall ==
    IF files_is_none
    THEN ChunksOfSingle(files[1].path, files[1].length, max_size_allow,
                        ignore_warning)
    ELSE ChunksOf(files, max_size_allow, ignore_warning)

\* let chunks = self.chunks()?;
Chunks ==
    /\ pc = "plan"
    /\ LET r == ChunksCall IN
         /\ chunks' = r
         /\ IF r.err # "none"
            THEN /\ result' = r.err
                 /\ pc' = "done"
            ELSE /\ pc' = "queue"
                 /\ UNCHANGED result
    /\ UNCHANGED <<inputVars, earlierVars, auxVars, seed_enable, queue,
                   jobIdx, offset, skipped, dlVars, upVars, agentVars,
                   histVars>>

\* `torrent.files.unwrap()` in build_queue on a torrent without a file list.
UnwrapNone == [status |-> "panic", no_all_files |-> 0, job |-> <<>>]

\* let queue = build_queue(chunks, torrent); let mut offset = 0;
\* let mut skipped = skip;
BuildQueue ==
    /\ pc = "queue"
    /\ LET q == IF files_is_none THEN UnwrapNone
                ELSE build_queue(chunks.map, files)
       IN
         /\ queue' = q
         /\ IF q.status = "panic"
            THEN /\ pc' = "panic"
                 /\ UNCHANGED <<jobIdx, offset, skipped>>
            ELSE /\ jobIdx' = 1
                 /\ offset' = 0
                 /\ skipped' = skip
                 /\ pc' = "loop"
    /\ UNCHANGED <<inputVars, earlierVars, auxVars, seed_enable, result,
                   chunks, dlVars, upVars, agentVars, histVars>>

\* ------------------------------------------------------- the orchestrator
Job == queue.job[jobIdx]

Issue(c, op) == issued' = [issued EXCEPT ![c] = @ \cup {op}]
Return(c, op) == returned' = [returned EXCEPT ![c] = @ \cup {op}]

\* The next position after a stage of a chunk returned `r`.
AfterStageIgnoreErr(r, next) == next

AfterStage(r, next) == IF r = "Ok" THEN next ELSE "done"

\* The value leech_torrent returns when a stage returned `r`.
ResultAfter(r) == IF r = "Ok" THEN result ELSE r

\* --------------------------------------------------- the agent's REST API
\* Status codes of the agent's final response to a request, and what its body
\* holds: a JSON list of torrent records, the empty JSON list, or other text.
HttpStatuses == {200, 204, 304, 403, 404, 500}
Bodies == {"torrents", "empty_list", "text"}
Is2xx(status) == status \div 100 = 2

\* res.error_for_status() / res.error_for_status_ref(): reqwest returns Err
\* for a client error (4xx) or a server error (5xx) and Ok for any other
\* status.
error_for_status(status) == IF status >= 400 THEN "ReqErr" ELSE "Ok"

\* add_new_torrent, set_priority, resume_torrent, delete_torrent,
\* set_share_limit and application_version: `match res.error_for_status()`.
StatusCheckedOps ==
    {"add_new_torrent", "set_priority", "resume_torrent", "delete_torrent",
     "set_share_limit", "application_version"}

\* A query for which an empty list is a deserialization failure like any
\* other.
get_torrent_info_no_empty(status, body) ==
    IF body = "torrents" THEN "Ok" ELSE "SerdeJson"

\* get_torrent_info: `.send().await?.bytes().await?`, serde_json::from_slice
\* and the first record of the list; the status is not looked at.
get_torrent_info(status, body) ==
    IF body = "text" THEN "SerdeJson"
    ELSE IF body = "empty_list" THEN "QbitEmptyTorrentInfo"
    ELSE "Ok"

AgentOps == StatusCheckedOps \cup {"get_torrent_info"}

\* What the operation returns to its caller for a final response.
OpReturn(op, status, body) ==
    IF op \in StatusCheckedOps
    THEN error_for_status(status)
    ELSE get_torrent_info(status, body)

\* What a command to the agent can return: Ok, or the reqwest error of a
\* failed status (or of a transport failure that retry() gave up on).
CommandResults == {error_for_status(st) : st \in HttpStatuses}

\* torrent_client.application_version().await?
AppVersion ==
    /\ pc = "start"
    /\ \E r \in CommandResults :
         /\ pc' = AfterStage(r, "plan")
         /\ result' = ResultAfter(r)
    /\ UNCHANGED <<inputVars, earlierVars, auxVars, seed_enable, chunks,
                   queue, jobIdx, offset, skipped, dlVars, upVars, agentVars,
                   histVars>>

\* for job in jobs: the loop is over.
LoopEnd ==
    /\ pc = "loop"
    /\ jobIdx > Len(queue.job)
    /\ pc' = "seed"
    /\ UNCHANGED <<inputVars, earlierVars, auxVars, seed_enable, result,
                   chunks, queue, jobIdx, offset, skipped, dlVars, upVars,
                   agentVars, histVars>>

\* job.info(): total_size / no_files panics when no_files is 0.
JobInfoPanic ==
    /\ pc = "loop"
    /\ jobIdx <= Len(queue.job)
    /\ Job.no_files = 0
    /\ pc' = "panic"
    /\ UNCHANGED <<inputVars, earlierVars, auxVars, seed_enable, result,
                   chunks, queue, jobIdx, offset, skipped, dlVars, upVars,
                   agentVars, histVars>>

\* `if skipped > 0`
SkipsNever(n) == FALSE

Skips(n) == n > 0

\* `offset += job.no_files` of a skipped chunk.
SkippedOffsetUnchanged(off, no_files) == off

SkippedOffset(off, no_files) == off + no_files

\* if skipped > 0 { skipped -= 1; offset += job.no_files; continue; }
SkipChunk ==
    /\ pc = "loop"
    /\ jobIdx <= Len(queue.job)
    /\ Job.no_files # 0
    /\ Skips(skipped)
    /\ skipped' = skipped - 1
    /\ offset' = SkippedOffset(offset, Job.no_files)
    /\ jobIdx' = jobIdx + 1
    /\ UNCHANGED <<inputVars, earlierVars, auxVars, seed_enable, pc, result,
                   chunks, queue, dlVars, upVars, agentVars, histVars>>

\* Global file indices of the torrent, as the agent numbers them.
FileIndices == 0..(Len(files) - 1)

\* torrent_client.add_new_torrent(&config).await?: the job is added paused
\* (main.rs: .paused(true)) with every file at its default priority.
AddNewTorrent ==
    /\ pc = "loop"
    /\ jobIdx <= Len(queue.job)
    /\ Job.no_files # 0
    /\ ~Skips(skipped)
    /\ Issue(Job.chunk, "add")
    /\ added' = torrent_config
    /\ \E r \in CommandResults :
         /\ pc' = AfterStage(r, "share")
         /\ result' = ResultAfter(r)
         /\ IF r = "Ok"
            THEN /\ Return(Job.chunk, "add")
                 /\ agentJobs' = agentJobs \cup {Job.chunk}
                 /\ agentEnabled' = FileIndices
                 /\ agentRunning' = StartsAtOnce(torrent_config)
            ELSE UNCHANGED <<returned, agentVars>>
    /\ UNCHANGED <<inputVars, earlierVars, recLog, last_line, replan, http,
                   seed_enable, chunks, queue, jobIdx, offset, skipped,
                   dlVars, upVars>>

\* torrent_client.set_share_limit(&hash).await?
SetShareLimit ==
    /\ pc = "share"
    /\ Issue(Job.chunk, "share")
    /\ \E r \in CommandResults :
         /\ pc' = AfterStage(r, "prio")
         /\ result' = ResultAfter(r)
         /\ IF r = "Ok" THEN Return(Job.chunk, "share") ELSE UNCHANGED returned
    /\ UNCHANGED <<inputVars, earlierVars, auxVars, seed_enable, chunks,
                   queue, jobIdx, offset, skipped, dlVars, upVars, agentVars>>

\* Job::disable_others: the indices written to the string, in order.
DisableOthersIds(no_files, off, no_all_files) ==
    {i \in 0..(no_all_files - 1) : i < off \/ i >= off + no_files}

\* The window of indices disable_others leaves alone.
Window(no_files, off) == off..(off + no_files - 1)

\* Some(disable_string): set_priority(&hash, disable_string, 0).await?
SetPriority ==
    /\ pc = "prio"
    /\ LET ids == DisableOthersIds(Job.no_files, offset, queue.no_all_files) IN
         /\ ids # {}
         /\ Issue(Job.chunk, "prio")
         /\ \E r \in CommandResults :
              /\ pc' = AfterStage(r, "dl_start")
              /\ result' = ResultAfter(r)
              /\ IF r = "Ok"
                 THEN /\ Return(Job.chunk, "prio")
                      /\ agentEnabled' = agentEnabled \ ids
                 ELSE UNCHANGED <<returned, agentEnabled>>
    /\ UNCHANGED <<inputVars, earlierVars, auxVars, seed_enable, chunks,
                   queue, jobIdx, offset, skipped, dlVars, upVars, agentJobs,
                   agentRunning>>

\* The string is empty: `disable_others.len() - 3` wraps in a release build,
\* truncate() to a longer length does nothing, and disable_others is None.
NoPriority ==
    /\ pc = "prio"
    /\ DisableOthersIds(Job.no_files, offset, queue.no_all_files) = {}
    /\ pc' = "dl_start"
    /\ UNCHANGED <<inputVars, earlierVars, auxVars, seed_enable, result,
                   chunks, queue, jobIdx, offset, skipped, dlVars, upVars,
                   agentVars, histVars>>

\* The string is empty: `disable_others.len() - 3` panics in a build with
\* overflow checks.
DisableOthersOverflow ==
    /\ pc = "prio"
    /\ DisableOthersIds(Job.no_files, offset, queue.no_all_files) = {}
    /\ pc' = "panic"
    /\ UNCHANGED <<inputVars, earlierVars, auxVars, seed_enable, result,
                   chunks, queue, jobIdx, offset, skipped, dlVars, upVars,
                   agentVars, histVars>>

\* A counter that starts one recovery short after an earlier call recovered.
RetryCarriedOver(spent_before) ==
    IF spent_before THEN RetryStart + 1 ELSE RetryStart

\* let mut retry = 1; whatever earlier calls of download did.
RetryAtStart(spent_before) == RetryStart

\* ------------------------------------------- the remote job state machine
\* Job::download's locals before the call and after it returned.
NoDownload ==
    /\ retry' = RetryAtStart(spent)
    /\ state' = "none"
    /\ recState' = "none"
    /\ retry_state' = "none"
    /\ pb_position' = AsU64(0)
    /\ onlyErr' = TRUE
    /\ nObs' = NoCounts
    /\ nRec' = NoCounts

\* download returns r.
DownloadReturns(r) == dlRet' = r /\ pc' = "dl_ret"

\* A history variable of download becomes `new` in the specification that
\* follows one call of download, and is left alone in the others.
Kept(old, new) == IF trace THEN new ELSE old

\* `if retry <= 3`
MayRetryOneMore(r) == r <= RetryLimit + 1

MayRetry(r) == r <= RetryLimit

\* amount_left values the agent reports for a job of `size` bytes.
AmountLeft(size) == {0, size, size + 1}

\* min(size - current_info.amount_left, size) as u64
Position(size, amount_left) == AsU64(Min(size - amount_left, size))

\* What a status query returns besides a state.
QueryErrors ==
    ({get_torrent_info(st, b) : st \in HttpStatuses, b \in Bodies} \ {"Ok"})
        \cup {"ReqErr"}

\* let mut retry = 1; client.resume_torrent(hash).await?;
DownloadStart ==
    /\ pc = "dl_start"
    /\ NoDownload
    /\ Issue(Job.chunk, "resume")
    /\ \E r \in CommandResults :
         IF r = "Ok"
         THEN /\ pc' = "dl_poll"
              /\ agentRunning' = TRUE
              /\ Return(Job.chunk, "resume")
              /\ UNCHANGED dlRet
         ELSE /\ DownloadReturns(r)
              /\ UNCHANGED <<agentRunning, returned>>
    /\ UNCHANGED <<inputVars, earlierVars, auxVars, seed_enable, result,
                   chunks, queue, jobIdx, offset, skipped, upVars, agentJobs,
                   agentEnabled>>

\* client.get_torrent_info(hash).await? fails.
PollFail ==
    /\ pc = "dl_poll"
    /\ Issue(Job.chunk, "poll")
    /\ retry_state' = "none"
    /\ \E e \in QueryErrors : DownloadReturns(e)
    /\ UNCHANGED <<inputVars, earlierVars, auxVars, seed_enable, result,
                   chunks, queue, jobIdx, offset, skipped, retry, state,
                   recState, pb_position, onlyErr, nObs, nRec, upVars,
                   agentVars, returned>>

\* State::Moving | State::Allocating | State::MetaDL
PollWaiting ==
    /\ pc = "dl_poll"
    /\ Issue(Job.chunk, "poll")
    /\ retry_state' = "none"
    /\ \E s \in WaitingStates : state' = Kept("none", s)
    /\ onlyErr' = Kept(onlyErr, FALSE)
    /\ UNCHANGED <<inputVars, earlierVars, auxVars, seed_enable, pc, result,
                   chunks, queue, jobIdx, offset, skipped, retry, recState,
                   pb_position, dlRet, nObs, nRec, upVars, agentVars, returned>>

\* State::Downloading | StalledDL | QueuedDL | ForceDL | CheckingDL
PollDownloading ==
    /\ pc = "dl_poll"
    /\ Issue(Job.chunk, "poll")
    /\ retry_state' = "none"
    /\ \E s \in DownloadingStates : state' = Kept("none", s)
    /\ \E left \in AmountLeft(Job.total_size) :
         pb_position' = Position(Job.total_size, left)
    /\ onlyErr' = Kept(onlyErr, FALSE)
    /\ UNCHANGED <<inputVars, earlierVars, auxVars, seed_enable, pc, result,
                   chunks, queue, jobIdx, offset, skipped, retry, recState,
                   dlRet, nObs, nRec, upVars, agentVars, returned>>

\* State::PausedDL | State::Unknown: the recovery begins.
PollRetryOnce ==
    /\ pc = "dl_poll"
    /\ Issue(Job.chunk, "poll")
    /\ recLog' = <<>>
    /\ retry_state' = "none"
    /\ \E s \in RetryOnceStates :
         /\ trace => nObs[s] < MaxRecoveries
         /\ state' = s
         /\ recState' = s
         /\ nObs' = Kept(nObs, [nObs EXCEPT ![s] = @ + 1])
    /\ onlyErr' = Kept(onlyErr, FALSE)
    /\ pc' = "dl_rec_sleep"
    /\ UNCHANGED <<inputVars, earlierVars, last_line, added, replan, http,
                   seed_enable, result, chunks, queue, jobIdx, offset,
                   skipped, retry, pb_position, dlRet, nRec, upVars,
                   agentVars, returned>>

\* State::Error | State::MissingFiles
PollError ==
    /\ pc = "dl_poll"
    /\ Issue(Job.chunk, "poll")
    /\ recLog' = <<>>
    /\ retry_state' = "none"
    /\ \E s \in ErrorStates :
         /\ state' = s
         /\ IF MayRetry(retry)
            THEN recState' = s /\ pc' = "dl_rec_sleep" /\ UNCHANGED dlRet
            ELSE DownloadReturns("QbitTorrentErrored") /\ UNCHANGED recState
         /\ nObs' = Kept(nObs, [nObs EXCEPT ![s] = @ + 1])
    /\ UNCHANGED <<inputVars, earlierVars, last_line, added, replan, http,
                   seed_enable, result, chunks, queue, jobIdx, offset,
                   skipped, retry, pb_position, onlyErr, nRec, upVars,
                   agentVars, returned>>

\* State::PausedUP | StalledUP | Uploading | QueuedUP | ForcedUP | CheckingUP
PollComplete ==
    /\ pc = "dl_poll"
    /\ Issue(Job.chunk, "poll")
    /\ retry_state' = "none"
    /\ \E s \in CompleteStates : state' = s
    /\ onlyErr' = Kept(onlyErr, FALSE)
    /\ DownloadReturns("Ok")
    /\ UNCHANGED <<inputVars, earlierVars, auxVars, seed_enable, result,
                   chunks, queue, jobIdx, offset, skipped, retry, recState,
                   pb_position, nObs, nRec, upVars, agentVars, returned>>

\* return Err(error::Error::QbitTorrentUnimplementedState)
CheckingResumeDataAsErrored == "QbitTorrentErrored"

CheckingResumeDataError == "QbitTorrentUnimplementedState"

\* State::CheckingResumeData
PollCheckingResumeData ==
    /\ pc = "dl_poll"
    /\ Issue(Job.chunk, "poll")
    /\ retry_state' = "none"
    /\ state' = "checkingResumeData"
    /\ onlyErr' = Kept(onlyErr, FALSE)
    /\ DownloadReturns(CheckingResumeDataError)
    /\ UNCHANGED <<inputVars, earlierVars, auxVars, seed_enable, result,
                   chunks, queue, jobIdx, offset, skipped, retry, recState,
                   pb_position, nObs, nRec, upVars, agentVars, returned>>

\* A recovery that goes from the wait straight back to querying the state.
AfterSleepNoResume(st) ==
    IF st \in ErrorStates THEN "dl_poll" ELSE "dl_rec_check"

\* What follows the wait of a recovery: client.resume_torrent(hash).await?
AfterSleep(st) == "dl_rec_resume"

\* sleep(Duration::from_millis(5000)).await; and, for Error and MissingFiles,
\* retry += 1.
RecoverySleep ==
    /\ pc = "dl_rec_sleep"
    /\ recLog' = Kept(recLog, Append(recLog, "sleep"))
    /\ UNCHANGED retry_state
    /\ retry' = IF recState \in ErrorStates THEN retry + 1 ELSE retry
    /\ pc' = AfterSleep(recState)
    /\ UNCHANGED <<inputVars, earlierVars, last_line, added, replan, http,
                   seed_enable, result, chunks, queue, jobIdx, offset,
                   skipped, state, recState, pb_position, dlRet, onlyErr,
                   nObs, nRec, upVars, agentVars, histVars>>

\* client.resume_torrent(hash).await? of a recovery; Error and MissingFiles
\* `continue` from here, PausedDL and Unknown go on to the re-check.
RecoveryResume ==
    /\ pc = "dl_rec_resume"
    /\ Issue(Job.chunk, "resume")
    /\ recLog' = Kept(recLog, Append(recLog, "resume"))
    /\ UNCHANGED retry_state
    /\ \E r \in CommandResults :
         IF r = "Ok"
         THEN /\ nRec' = Kept(nRec, [nRec EXCEPT ![recState] = @ + 1])
              /\ IF recState \in ErrorStates
                 THEN /\ recState' = "none"
                      /\ state' = "none"
                      /\ pc' = "dl_poll"
                 ELSE /\ pc' = "dl_rec_check"
                      /\ UNCHANGED <<recState, state>>
              /\ UNCHANGED dlRet
         ELSE /\ DownloadReturns(r)
              /\ UNCHANGED <<nRec, recState, state>>
    /\ UNCHANGED <<inputVars, earlierVars, last_line, added, replan, http,
                   seed_enable, result, chunks, queue, jobIdx, offset,
                   skipped, retry, pb_position, onlyErr, nObs, upVars,
                   agentVars, returned>>

\* `match retry_state { State::PausedDL => .. }` in the PausedDL arm and
\* `match retry_state { State::Unknown => .. }` in the Unknown arm: whether the
\* re-check saw the state the recovery is for.
StillInNever(retry_st, st) == FALSE

StillIn(retry_st, st) == retry_st = st

\* let retry_current_info = client.get_torrent_info(hash).await?; the same
\* state again is fatal, any other state continues the loop.
RecoveryCheck ==
    /\ pc = "dl_rec_check"
    /\ Issue(Job.chunk, "poll")
    /\ recLog' = Kept(recLog, Append(recLog, "check"))
    /\ \/ \E e \in QueryErrors :
            /\ DownloadReturns(e)
            /\ UNCHANGED <<state, recState, retry_state>>
       \/ \E s \in States :
            IF StillIn(s, recState)
            THEN /\ DownloadReturns("QbitTorrentErrored")
                 /\ retry_state' = s
                 /\ UNCHANGED <<state, recState>>
            ELSE /\ pc' = "dl_poll"
                 /\ state' = "none"
                 /\ recState' = "none"
                 /\ retry_state' = Kept("none", s)
                 /\ UNCHANGED dlRet
    /\ UNCHANGED <<inputVars, earlierVars, last_line, added, replan, http,
                   seed_enable, result, chunks, queue, jobIdx, offset,
                   skipped, retry, pb_position, onlyErr, nObs, nRec, upVars,
                   agentVars, returned>>

\* job.download(&torrent_client, &hash, no_jobs).await?
DownloadReturn ==
    /\ pc = "dl_ret"
    /\ pc' = AfterStage(dlRet, "up_spawn")
    /\ result' = ResultAfter(dlRet)
    /\ IF dlRet = "Ok" THEN Return(Job.chunk, "download") ELSE UNCHANGED returned
    /\ spent' = (spent \/ retry > RetryStart)
    /\ NoDownload
    /\ dlRet' = "none"
    /\ UNCHANGED <<inputVars, auxVars, seed_enable, chunks, queue, jobIdx,
                   offset, skipped, upVars, agentVars, issued>>

\* ------------------------------------------------- the transfer monitor
\* Job::upload's locals before the call and after it returned.
NoUpload ==
    /\ child' = "none"
    /\ exit_code' = -1
    /\ up_position' = 0
    /\ nLines' = 0

\* upload returns r.
UploadReturns(r) == upRet' = r /\ pc' = "up_ret"

\* A line of the subprocess's stderr: whether it contains "ETA", whether it
\* deserializes to RcloneCopyResp, and the stats record it carries.
Lines ==
    [marker : BOOLEAN, valid : BOOLEAN, has_stats : BOOLEAN, bytes : 0..MaxLen,
     has_speed : BOOLEAN, speed : 0..1]

\* A readout that shows the bytes of every stats record.
ReadoutAnySpeed(position, line) ==
    IF line.has_stats THEN line.bytes ELSE position

\* The position of upload's progress bar after a line that has the marker.
Readout(position, line) ==
    IF line.has_stats /\ line.has_speed /\ line.speed > 0
    THEN line.bytes
    ELSE position

\* Exit statuses of the subprocess.
ExitCodes == 0..1

\* client.build_stderr_capture(..)?: Command::spawn() and ProgressBar::new.
UploadSpawn ==
    /\ pc = "up_spawn"
    /\ Issue(Job.chunk, "upload")
    /\ \/ /\ child' = "running"
          /\ pc' = "up_read"
          /\ UNCHANGED upRet
       \/ /\ UploadReturns("CommandSpawningError")
          /\ UNCHANGED child
    /\ UNCHANGED <<inputVars, earlierVars, auxVars, seed_enable, result,
                   chunks, queue, jobIdx, offset, skipped, dlVars, exit_code,
                   up_position, nLines, agentVars, returned>>

\* One line of reader.lines(): filtered on "ETA", deserialized with unwrap(),
\* and shown when it reports speed > 0.
UploadLine ==
    /\ pc = "up_read"
    /\ nLines < MaxLines
    /\ nLines' = nLines + 1
    /\ \E line \in Lines :
         /\ last_line' = Kept(last_line, line)
         /\ IF ~line.marker
            THEN UNCHANGED <<pc, up_position>>
            ELSE IF ~line.valid
            THEN pc' = "panic" /\ UNCHANGED up_position
            ELSE up_position' = Readout(up_position, line) /\ UNCHANGED pc
    /\ UNCHANGED <<inputVars, earlierVars, recLog, added, replan, http,
                   seed_enable, result, chunks, queue, jobIdx, offset,
                   skipped, dlVars, child, exit_code, upRet, agentVars,
                   histVars>>

\* reader.lines() ends: the subprocess has exited, with any status, and
\* upload returns Ok(()) without asking for the status.
UploadEof ==
    /\ pc = "up_read"
    /\ child' = "exited"
    /\ \E e \in ExitCodes : exit_code' = e
    /\ UploadReturns("Ok")
    /\ UNCHANGED <<inputVars, earlierVars, auxVars, seed_enable, result,
                   chunks, queue, jobIdx, offset, skipped, dlVars,
                   up_position, nLines, agentVars, histVars>>

\* job.upload(&upload_client, no_jobs)?
UploadReturn ==
    /\ pc = "up_ret"
    /\ pc' = AfterStage(upRet, "delete")
    /\ result' = ResultAfter(upRet)
    /\ IF upRet = "Ok" THEN Return(Job.chunk, "upload") ELSE UNCHANGED returned
    /\ NoUpload
    /\ upRet' = "none"
    /\ UNCHANGED <<inputVars, earlierVars, auxVars, seed_enable, chunks,
                   queue, jobIdx, offset, skipped, dlVars, agentVars, issued>>

\* ------------------------------------------- the orchestrator, continued
\* torrent_client.delete_torrent(&hash, true).await?; offset += job.no_files;
DeleteTorrent ==
    /\ pc = "delete"
    /\ Issue(Job.chunk, "delete")
    /\ \E r \in CommandResults :
         /\ pc' = AfterStage(r, "loop")
         /\ result' = ResultAfter(r)
         /\ IF r = "Ok"
            THEN /\ Return(Job.chunk, "delete")
                 /\ agentJobs' = agentJobs \ {Job.chunk}
                 /\ agentEnabled' = {}
                 /\ agentRunning' = FALSE
            ELSE UNCHANGED <<returned, agentVars>>
         /\ IF AfterStage(r, "loop") = "loop"
            THEN offset' = offset + Job.no_files /\ jobIdx' = jobIdx + 1
            ELSE UNCHANGED <<offset, jobIdx>>
    /\ UNCHANGED <<inputVars, earlierVars, auxVars, seed_enable, chunks,
                   queue, skipped, dlVars, upVars>>

\* if *seed.seed_enable() { .. } Ok(())
SeedCheck ==
    /\ pc = "seed"
    /\ IF seed_enable
       THEN pc' = "seed_wait" /\ UNCHANGED result
       ELSE pc' = "done" /\ result' = "Ok"
    /\ UNCHANGED <<inputVars, earlierVars, auxVars, seed_enable, chunks,
                   queue, jobIdx, offset, skipped, dlVars, upVars, agentVars,
                   histVars>>

\* util::wait_with_progress(*seed.seed_wait()).await
SeedWait ==
    /\ pc = "seed_wait"
    /\ pc' = "seed_add"
    /\ UNCHANGED <<inputVars, earlierVars, auxVars, seed_enable, result,
                   chunks, queue, jobIdx, offset, skipped, dlVars, upVars,
                   agentVars, histVars>>

\* torrent_client.add_new_torrent(&seed_config).await?
SeedAdd ==
    /\ pc = "seed_add"
    /\ Issue(SeedJob, "add")
    /\ added' = seed_config
    /\ \E r \in CommandResults :
         /\ pc' = AfterStage(r, "seed_share")
         /\ result' = ResultAfter(r)
         /\ IF r = "Ok"
            THEN /\ Return(SeedJob, "add")
                 /\ agentJobs' = agentJobs \cup {SeedJob}
                 /\ agentEnabled' = FileIndices
                 /\ agentRunning' = StartsAtOnce(seed_config)
            ELSE UNCHANGED <<returned, agentVars>>
    /\ UNCHANGED <<inputVars, earlierVars, recLog, last_line, replan, http,
                   seed_enable, chunks, queue, jobIdx, offset, skipped,
                   dlVars, upVars>>

\* torrent_client.set_share_limit(&hash).await?
SeedShare ==
    /\ pc = "seed_share"
    /\ Issue(SeedJob, "share")
    /\ \E r \in CommandResults :
         /\ pc' = AfterStage(r, "seed_resume")
         /\ result' = ResultAfter(r)
         /\ IF r = "Ok" THEN Return(SeedJob, "share") ELSE UNCHANGED returned
    /\ UNCHANGED <<inputVars, earlierVars, auxVars, seed_enable, chunks,
                   queue, jobIdx, offset, skipped, dlVars, upVars, agentVars>>

\* torrent_client.resume_torrent(&hash).await?; Ok(())
SeedResume ==
    /\ pc = "seed_resume"
    /\ Issue(SeedJob, "resume")
    /\ \E r \in CommandResults :
         /\ pc' = "done"
         /\ result' = r
         /\ IF r = "Ok"
            THEN Return(SeedJob, "resume") /\ agentRunning' = TRUE
            ELSE UNCHANGED <<returned, agentRunning>>
    /\ UNCHANGED <<inputVars, earlierVars, auxVars, seed_enable, chunks,
                   queue, jobIdx, offset, skipped, dlVars, upVars, agentJobs,
                   agentEnabled>>

Next ==
    \/ AppVersion \/ Chunks \/ BuildQueue
    \/ LoopEnd \/ JobInfoPanic \/ SkipChunk
    \/ AddNewTorrent \/ SetShareLimit
    \/ SetPriority \/ NoPriority \/ DisableOthersOverflow
    \/ DownloadStart
    \/ PollFail \/ PollWaiting \/ PollDownloading \/ PollRetryOnce \/ PollError
    \/ PollComplete \/ PollCheckingResumeData
    \/ RecoverySleep \/ RecoveryResume \/ RecoveryCheck
    \/ DownloadReturn
    \/ UploadSpawn \/ UploadLine \/ UploadEof \/ UploadReturn
    \/ DeleteTorrent
    \/ SeedCheck \/ SeedWait \/ SeedAdd \/ SeedShare \/ SeedResume

Spec == Init /\ [][Next]_vars

\* A run of leech_torrent in which every command to the agent succeeds and
\* every sync-tool subprocess is spawned: no step ends with the error of a
\* request or of a spawn.
AgentErrors == (CommandResults \cup QueryErrors) \ {"Ok"}
CommandsSucceed ==
    /\ result' \notin AgentErrors
    /\ dlRet' \notin AgentErrors
    /\ upRet' # "CommandSpawningError"

NextGood ==
    \/ AppVersion /\ CommandsSucceed
    \/ Chunks \/ BuildQueue
    \/ LoopEnd \/ JobInfoPanic \/ SkipChunk
    \/ AddNewTorrent /\ CommandsSucceed
    \/ SetShareLimit /\ CommandsSucceed
    \/ SetPriority /\ CommandsSucceed
    \/ NoPriority \/ DisableOthersOverflow
    \/ DownloadStart /\ CommandsSucceed
    \/ PollWaiting \/ PollDownloading \/ PollRetryOnce \/ PollError
    \/ PollComplete \/ PollCheckingResumeData
    \/ RecoverySleep
    \/ RecoveryResume /\ CommandsSucceed
    \/ RecoveryCheck /\ CommandsSucceed
    \/ DownloadReturn
    \/ UploadSpawn /\ CommandsSucceed
    \/ UploadLine \/ UploadEof \/ UploadReturn
    \/ DeleteTorrent /\ CommandsSucceed
    \/ SeedCheck \/ SeedWait
    \/ SeedAdd /\ CommandsSucceed
    \/ SeedShare /\ CommandsSucceed
    \/ SeedResume /\ CommandsSucceed

\* The run goes on while it can, the subprocess closes its stderr, and the
\* agent, asked again and again, comes to report a complete-side state.
SpecGood ==
    /\ Init
    /\ [][NextGood]_vars
    /\ WF_vars(NextGood)
    /\ WF_vars(UploadEof)
    /\ SF_vars(PollComplete)

\* One call of Job::download, for the one job of a one-file pack that has
\* been added and whose share limit has been set.
InitDownload ==
    /\ max_size_allow = MaxLen
    /\ \E l \in 1..MaxLen : files = FilesOf(<<l>>)
    /\ files_is_none = FALSE
    /\ ignore_warning = FALSE
    /\ skip = 0
    /\ seed_enable = FALSE
    /\ trace = TRUE
    /\ pc = "dl_start"
    /\ result = "none"
    /\ chunks = ChunksOf(files, max_size_allow, ignore_warning)
    /\ queue = build_queue(chunks.map, files)
    /\ jobIdx = 1
    /\ offset = 0
    /\ skipped = 0
    /\ retry = RetryStart
    /\ state = "none"
    /\ recState = "none"
    /\ retry_state = "none"
    /\ pb_position = AsU64(0)
    /\ dlRet = "none"
    /\ child = "none"
    /\ exit_code = -1
    /\ up_position = 0
    /\ nLines = 0
    /\ upRet = "none"
    /\ agentJobs = {FirstChunk}
    /\ agentEnabled = FileIndices
    /\ agentRunning = FALSE
    /\ issued = [NoHistory EXCEPT ![FirstChunk] = {"add", "share"}]
    /\ returned = [NoHistory EXCEPT ![FirstChunk] = {"add", "share"}]
    /\ onlyErr = TRUE
    /\ nObs = NoCounts
    /\ nRec = NoCounts
    /\ recLog = <<>>
    /\ last_line = NoLine
    /\ added = torrent_config
    /\ replan = NoChunks
    /\ http = NoRequest
    /\ spent = FALSE

NextDownload ==
    \/ DownloadStart
    \/ PollFail \/ PollWaiting \/ PollDownloading \/ PollRetryOnce \/ PollError
    \/ PollComplete \/ PollCheckingResumeData
    \/ RecoverySleep \/ RecoveryResume \/ RecoveryCheck

SpecDownload == InitDownload /\ [][NextDownload]_vars

\* One call of Job::upload, for the one job of a one-file pack that has been
\* downloaded.
InitUpload ==
    /\ max_size_allow = MaxLen
    /\ \E l \in 1..MaxLen : files = FilesOf(<<l>>)
    /\ files_is_none = FALSE
    /\ ignore_warning = FALSE
    /\ skip = 0
    /\ seed_enable = FALSE
    /\ trace = TRUE
    /\ pc = "up_spawn"
    /\ result = "none"
    /\ chunks = ChunksOf(files, max_size_allow, ignore_warning)
    /\ queue = build_queue(chunks.map, files)
    /\ jobIdx = 1
    /\ offset = 0
    /\ skipped = 0
    /\ retry = RetryStart
    /\ state = "none"
    /\ recState = "none"
    /\ retry_state = "none"
    /\ pb_position = AsU64(0)
    /\ dlRet = "none"
    /\ child = "none"
    /\ exit_code = -1
    /\ up_position = 0
    /\ nLines = 0
    /\ upRet = "none"
    /\ agentJobs = {FirstChunk}
    /\ agentEnabled = FileIndices
    /\ agentRunning = TRUE
    /\ issued = [NoHistory EXCEPT
                   ![FirstChunk] = {"add", "share", "resume", "poll"}]
    /\ returned = [NoHistory EXCEPT
                     ![FirstChunk] = {"add", "share", "resume", "download"}]
    /\ onlyErr = TRUE
    /\ nObs = NoCounts
    /\ nRec = NoCounts
    /\ recLog = <<>>
    /\ last_line = NoLine
    /\ added = torrent_config
    /\ replan = NoChunks
    /\ http = NoRequest
    /\ spent = FALSE

NextUpload == UploadSpawn \/ UploadLine \/ UploadEof

SpecUpload == InitUpload /\ [][NextUpload]_vars

\* One request to the agent through one of QbitConfig's operations, and the
\* final response to it.
InitAgent ==
    /\ max_size_allow = MaxLen
    /\ files = FilesOf(<<1>>)
    /\ files_is_none = FALSE
    /\ ignore_warning = FALSE
    /\ skip = 0
    /\ seed_enable = FALSE
    /\ trace = FALSE
    /\ pc = "agent"
    /\ InitLocals

AgentRequest ==
    /\ pc = "agent"
    /\ \E op \in AgentOps, status \in HttpStatuses, body \in Bodies :
         http' = [op |-> op, status |-> status, body |-> body,
                  ret |-> OpReturn(op, status, body)]
    /\ UNCHANGED <<inputVars, earlierVars, recLog, last_line, added, replan,
                   seed_enable, pc, result, chunks, queue, jobIdx, offset,
                   skipped, dlVars, upVars, agentVars, histVars>>

NextAgent == AgentRequest

SpecAgent == InitAgent /\ [][NextAgent]_vars

\* chunks() called once more on the same pack after it has returned.
Replan ==
    /\ chunks.err # "unset"
    /\ replan.err = "unset"
    /\ replan' = ChunksCall
    /\ UNCHANGED <<inputVars, earlierVars, recLog, last_line, added, http,
                   seed_enable, pc, result, chunks, queue, jobIdx, offset,
                   skipped, dlVars, upVars, agentVars, histVars>>

NextPlan == Chunks \/ BuildQueue \/ Replan

SpecPlan == InitPlan /\ [][NextPlan]_vars

\* ------------------------------------------------------------------- main
\* A run of the program: main's size check and login, then leech_torrent.
InitMain ==
    /\ max_size_allow = MaxLen - 1
    /\ \E lens \in PackLengths({1, MaxLen - 1, MaxLen}) : files = FilesOf(lens)
    /\ files_is_none \in {b \in BOOLEAN : b => Len(files) = 1}
    /\ ignore_warning \in BOOLEAN
    /\ skip \in 0..MaxSkip
    /\ seed_enable \in BOOLEAN
    /\ pc = "main"
    /\ trace = FALSE
    /\ InitLocals

\* get_largest_filesize on a torrent with an empty file list: `.expect` on
\* the None that max_by returns.
LargestFilePanics == ~files_is_none /\ Len(files) = 0

\* check_max_size_requirements(&config, &parsed_input.raw_data)?: the match
\* on config.ignore_warning compares no sizes.
CheckMaxSizeRequirements ==
    /\ pc = "main"
    /\ IF LargestFilePanics
       THEN pc' = "panic" /\ UNCHANGED result
       ELSE IF ~ignore_warning
            THEN pc' = "done" /\ result' = "MaxSizeAllowedTooSmall"
            ELSE pc' = "login" /\ UNCHANGED result
    /\ UNCHANGED <<inputVars, earlierVars, auxVars, seed_enable, chunks,
                   queue, jobIdx, offset, skipped, dlVars, upVars, agentVars,
                   histVars>>

\* What QbitConfig::new can return.
LoginResults == {"Ok", "ReqErr", "MissingHeaders", "MissingCookie"}

\* QbitConfig::new(&qbconfig.username, ..).await?
Login ==
    /\ pc = "login"
    /\ \E r \in LoginResults :
         /\ pc' = AfterStage(r, "start")
         /\ result' = ResultAfter(r)
    /\ UNCHANGED <<inputVars, earlierVars, auxVars, seed_enable, chunks,
                   queue, jobIdx, offset, skipped, dlVars, upVars, agentVars,
                   histVars>>

NextMain == CheckMaxSizeRequirements \/ Login \/ Next

SpecMain == InitMain /\ [][NextMain]_vars

\* ------------------------------------------------------- planner claims
NFiles == Len(files)
Positions == 1..NFiles
Planned == chunks.err = "none"
Queued == queue.status = "ok"
ChunkOfFile(i) == chunks.map[files[i].path].chunk
LengthAt == [i \in Positions |-> files[i].length]
UsedChunks == {ChunkOfFile(i) : i \in Positions} \ {Excluded}
FilesOfChunk(k) == {i \in Positions : ChunkOfFile(i) = k}
NonExcluded == {i \in Positions : ChunkOfFile(i) # Excluded}
JobTotals == [j \in 1..Len(queue.job) |-> queue.job[j].total_size]
JobCounts == [j \in 1..Len(queue.job) |-> queue.job[j].no_files]

\* C6: when the planner succeeds, the plan holds one entry per input file,
\* each with a chunk index >= 1 or the Excluded marker, and the chunk indices
\* in use are dense from 1: k > 1 in use implies k - 1 in use, and if any
\* index is in use then 1 is.
C6_PlanTotalAndDense ==
    Planned =>
      /\ DOMAIN chunks.map = {files[i].path : i \in Positions}
      /\ \A i \in Positions :
           /\ chunks.map[files[i].path].length = files[i].length
           /\ ChunkOfFile(i) >= 1 \/ ChunkOfFile(i) = Excluded
      /\ \A k \in UsedChunks : k > 1 => (k - 1) \in UsedChunks
      /\ UsedChunks # {} => 1 \in UsedChunks

\* A plan with an Excluded file between files of two chunks.
C6_Witness ==
    /\ Planned
    /\ \E i, j, l \in Positions :
         /\ i < j /\ j < l
         /\ ChunkOfFile(i) = 1 /\ ChunkOfFile(j) = Excluded /\ ChunkOfFile(l) = 2

\* C7: in every plan the planner emits, the lengths of the files assigned to
\* one chunk index sum to at most max_size_allow, also for the chunk the
\* last-file case opens; the same holds of every Job of the queue built
\* from the plan.
C7_ChunkWithinBudget ==
    /\ Planned =>
         \A k \in UsedChunks : SumSet(FilesOfChunk(k), LengthAt) <= max_size_allow
    /\ Queued =>
         \A j \in 1..Len(queue.job) : queue.job[j].total_size <= max_size_allow

\* The last file did not fit the current chunk and opened a chunk of its own.
C7_Witness ==
    /\ Queued
    /\ NFiles >= 2
    /\ ChunkOfFile(NFiles) >= 2
    /\ FilesOfChunk(ChunkOfFile(NFiles)) = {NFiles}
    /\ ChunkOfFile(NFiles - 1) = ChunkOfFile(NFiles) - 1
    /\ SumSet(FilesOfChunk(ChunkOfFile(NFiles) - 1), LengthAt) + files[NFiles].length
         > max_size_allow

\* C8: for the queue built from a plan with the same file order, total_size
\* summed over the jobs is the total length of the files that are not
\* Excluded, and no_files summed over the jobs is their number.
C8_QueueSums ==
    Queued =>
      /\ SumSet(DOMAIN JobTotals, JobTotals) = SumSet(NonExcluded, LengthAt)
      /\ SumSet(DOMAIN JobCounts, JobCounts) = Cardinality(NonExcluded)

\* A queue of two jobs built from a plan that has an Excluded file.
C8_Witness ==
    /\ Queued
    /\ Len(queue.job) >= 2
    /\ NonExcluded # Positions
    /\ SumSet(NonExcluded, LengthAt) > 0

\* ------------------------------------------------- orchestrator claims
RealChunks == ChunkIds \ {SeedJob}
ChunkPcs ==
    {"share", "prio", "dl_start", "dl_poll", "dl_rec_sleep", "dl_rec_resume",
     "dl_rec_check", "dl_ret", "up_spawn", "up_read", "up_ret", "delete"}
\* Positions (1-based) of the files the agent downloads.
EnabledPositions == {i + 1 : i \in agentEnabled}

\* C1: upload returns Ok only after the subprocess has exited, and only if
\* it exited with status zero.
C1_UploadOkOnlyAfterZeroExit ==
    upRet = "Ok" => (child = "exited" /\ exit_code = 0)

\* C2: within a chunk every stage is issued only after the stage before it
\* has returned success: set share limit and set priority after add, the
\* first resume (download) after add and after any set priority that was
\* issued, upload after download returned Ok, delete after upload returned Ok.
C2_StageOrder ==
    \A c \in RealChunks :
      /\ "share" \in issued[c] => "add" \in returned[c]
      /\ "prio" \in issued[c] => {"add", "share"} \subseteq returned[c]
      /\ "resume" \in issued[c] =>
           /\ {"add", "share"} \subseteq returned[c]
           /\ "prio" \in issued[c] => "prio" \in returned[c]
      /\ "poll" \in issued[c] => "resume" \in returned[c]
      /\ "download" \in returned[c] => "poll" \in issued[c]
      /\ "upload" \in issued[c] => "download" \in returned[c]
      /\ "delete" \in issued[c] => "upload" \in returned[c]

\* The second chunk of a run has gone through all its stages.
C2_Witness ==
    {"add", "share", "prio", "resume", "download", "upload", "delete"}
        \subseteq returned[2]

\* C3: a command for a chunk is issued only when every earlier chunk either
\* was skipped (no command was issued for it) or has had its delete return
\* success; and the agent never holds more than one job of the pipeline.
C3_OneChunkInFlight ==
    /\ \A c, d \in RealChunks :
         (c < d /\ issued[d] # {}) =>
           (issued[c] = {} \/ "delete" \in returned[c])
    /\ Cardinality(agentJobs) <= 1

\* The third chunk is being downloaded after the first and the second were
\* deleted.
C3_Witness ==
    /\ "poll" \in issued[3]
    /\ "delete" \in returned[1]
    /\ "delete" \in returned[2]
    /\ agentJobs = {3}

\* C4: whenever a chunk's job is running in the agent, the files that have
\* not been set to "do not download" add up to at most max_size_allow.
C4_EnabledWithinBudget ==
    (agentRunning /\ SeedJob \notin agentJobs) =>
      SumSet(EnabledPositions, LengthAt) <= max_size_allow

\* C5: while a chunk is processed, the window of indices disable_others
\* leaves enabled is the set of positions of the files the planner assigned
\* to the chunk.
C5_WindowIsChunk ==
    pc \in ChunkPcs =>
      {i + 1 : i \in Window(Job.no_files, offset)} = FilesOfChunk(Job.chunk)

\* ------------------------------------------------ state machine claims
ErrObs == nObs["error"] + nObs["missingFiles"]
ErrRec == nRec["error"] + nRec["missingFiles"]

\* C9: when every status query of a call of download sees error or
\* missingFiles, the call returns QbitTorrentErrored at the 4th query, after
\* exactly 3 recoveries: not before the 4th, and no 5th query is made.
C9_FatalOnFourthError ==
    /\ (onlyErr /\ dlRet = "QbitTorrentErrored") => (ErrObs = 4 /\ ErrRec = 3)
    /\ (onlyErr /\ ErrObs >= 4) => (ErrObs = 4 /\ dlRet = "QbitTorrentErrored")
    /\ (onlyErr /\ dlRet = "none") => ErrRec \in {ErrObs - 1, ErrObs}

\* missingFiles at four polls in a row.
C9_Witness ==
    /\ onlyErr
    /\ nObs["missingFiles"] = 4
    /\ nRec["missingFiles"] = 3
    /\ dlRet = "QbitTorrentErrored"

C11_OneRecoveryThenRecheck ==
    /\ [](pc = "dl_rec_check" =>
            (recState \in RetryOnceStates /\ nRec[recState] = nObs[recState]))
    /\ [][(pc = "dl_poll" /\ state' \in RetryOnceStates) =>
            (pc' = "dl_rec_sleep" /\ dlRet' = "none" /\ nRec' = nRec)]_vars
    /\ [][pc = "dl_rec_check" =>
            \/ /\ retry_state' = recState
               /\ dlRet' = "QbitTorrentErrored"
               /\ pc' = "dl_ret"
            \/ /\ retry_state' \in States \ {recState}
               /\ dlRet' = "none"
               /\ pc' = "dl_poll"
               /\ nRec' = nRec
            \/ /\ retry_state' = "none"
               /\ dlRet' \in QueryErrors
               /\ pc' = "dl_ret"]_vars

\* pausedDL was recovered from once, then seen again and still there at the
\* re-check.
C11_Witness ==
    /\ retry_state = "pausedDL"
    /\ recState = "pausedDL"
    /\ nRec["pausedDL"] = 2
    /\ dlRet = "QbitTorrentErrored"

\* The six complete-side states, as the claim lists them.
SixCompleteStates ==
    {"uploading", "pausedUP", "queuedUP", "stalledUP", "forcedUP", "checkingUP"}

\* C12: download returns Ok exactly when a poll of its loop sees one of the
\* six complete-side states, it returns at that very poll, and it has not
\* returned Ok while the last state polled is any other state.
C12_OkIffCompleteState ==
    /\ dlRet = "Ok" <=> state \in SixCompleteStates
    /\ state \in SixCompleteStates => pc = "dl_ret"
    /\ state \in States \ SixCompleteStates => dlRet # "Ok"

\* checkingUP seen after a poll that saw a download-side state.
C12_Witness ==
    /\ dlRet = "Ok"
    /\ state = "checkingUP"
    /\ ~onlyErr
    /\ pb_position = AsU64(1)

\* C13: a poll that sees checkingResumeData makes download return
\* QbitTorrentUnimplementedState at once: no recovery starts, no resume is
\* issued, the retry counter is not touched, and nothing else returns that
\* error.
C13_CheckingResumeDataIsFatal ==
    /\ [](state = "checkingResumeData" =>
            (pc = "dl_ret" /\ dlRet = "QbitTorrentUnimplementedState"))
    /\ [](dlRet = "QbitTorrentUnimplementedState" =>
            state = "checkingResumeData")
    /\ [][state' = "checkingResumeData" =>
            (pc = "dl_poll" /\ UNCHANGED <<retry, nRec, recState, agentVars>>)]_vars
    /\ [][state = "checkingResumeData" =>
            (pc' = "up_spawn" \/ pc' = "done") /\ UNCHANGED agentVars]_vars

\* checkingResumeData seen after one recovery from error.
C13_Witness ==
    /\ state = "checkingResumeData"
    /\ dlRet = "QbitTorrentUnimplementedState"
    /\ nRec["error"] = 1

\* ------------------------------------------------- planner policy claims
\* Positions of the files that are strictly larger than the budget.
Oversized == {i \in Positions : LengthAt[i] > max_size_allow}

\* C14: once chunks() has returned: without -f it returns
\* MaxSizeAllowedTooSmall exactly when some file is strictly larger than the
\* budget; with -f it never returns an error; and in every plan it returns a
\* file is Excluded exactly when it is strictly larger than the budget, every
\* other file having a chunk index >= 1.
C14_SizePolicy ==
    chunks.err # "unset" =>
      /\ chunks.err \in {"none", "MaxSizeAllowedTooSmall"}
      /\ ~ignore_warning =>
           (chunks.err = "MaxSizeAllowedTooSmall" <=> Oversized # {})
      /\ ignore_warning => chunks.err = "none"
      /\ Planned =>
           \A i \in Positions :
             /\ ChunkOfFile(i) = Excluded <=> i \in Oversized
             /\ i \notin Oversized => ChunkOfFile(i) >= FirstChunk

\* A plan made with -f in which an oversized file lies between two files that
\* were given chunks.
C14_Witness ==
    /\ ignore_warning
    /\ Planned
    /\ NFiles = 3
    /\ Oversized = {2}
    /\ ChunkOfFile(1) >= FirstChunk
    /\ ChunkOfFile(3) >= FirstChunk

\* The chunk that is open when the loop of chunks() reaches the last file,
\* and the bytes assigned to it by then.
MaxOf(S) == CHOOSE x \in S : \A y \in S : y <= x
ChunkBeforeLast ==
    LET used == {ChunkOfFile(i) : i \in 1..(NFiles - 1)} \ {Excluded}
    IN IF used = {} THEN FirstChunk ELSE MaxOf(used)
SumBeforeLast ==
    SumSet({i \in 1..(NFiles - 1) : ChunkOfFile(i) = ChunkBeforeLast}, LengthAt)

\* C17: in every plan, a last file that is not larger than the budget goes to
\* the chunk open before it when the chunk's bytes plus its length stay within
\* the budget, and otherwise to the next chunk index, which then holds that
\* file alone. For lengths 4, 1, 1 and budget 5 the plan is chunk 1 = files 1
\* and 2 and chunk 2 = file 3, and the queue holds 5 bytes and 1 byte.
C17_LastFileRule ==
    /\ (Planned /\ NFiles >= 1 /\ LengthAt[NFiles] <= max_size_allow) =>
         IF SumBeforeLast + LengthAt[NFiles] <= max_size_allow
         THEN ChunkOfFile(NFiles) = ChunkBeforeLast
         ELSE /\ ChunkOfFile(NFiles) = ChunkBeforeLast + 1
              /\ FilesOfChunk(ChunkBeforeLast + 1) = {NFiles}
    /\ (files = FilesOf(<<4, 1, 1>>) /\ max_size_allow = 5 /\ ~files_is_none) =>
         /\ chunks.err \in {"unset", "none"}
         /\ Planned =>
              /\ FilesOfChunk(1) = {1, 2}
              /\ FilesOfChunk(2) = {3}
              /\ UsedChunks = {1, 2}
         /\ queue.status \in {"unset", "ok"}
         /\ Queued => queue.job = <<NewJob(1, 5, 2), NewJob(2, 1, 1)>>

\* The queue of the pack with lengths 4, 1, 1 under budget 5.
C17_Witness ==
    /\ files = FilesOf(<<4, 1, 1>>)
    /\ max_size_allow = 5
    /\ Queued
    /\ Len(queue.job) = 2
    /\ ChunkOfFile(NFiles) = ChunkBeforeLast + 1

\* ------------------------------------------------------ input error claims
\* C15: a run fails with MaxSizeAllowedTooSmall only when -f is not given and
\* some file is strictly larger than the budget.
C15_SizeErrorOnlyWhenOversized ==
    result = "MaxSizeAllowedTooSmall" => (~ignore_warning /\ Oversized # {})

\* C16: given a pack with no files, planning returns the error
\* NothingToLeech: there is no plan and no queue entry, no command is issued
\* for any chunk, and the run does not panic.
C16_EmptyPackIsError ==
    (~files_is_none /\ NFiles = 0) =>
      /\ chunks.err \in {"unset", "NothingToLeech"}
      /\ queue.job = <<>>
      /\ \A c \in RealChunks : issued[c] = {}
      /\ pc # "panic"

\* ------------------------------------------------- skip and failure claims
\* The files of the jobs before position j of the queue.
OffsetBefore(j) == SumSet(1..(j - 1), JobCounts)
Failed == result \notin {"none", "Ok"}

\* C18: whatever the skip count, the offset in use while a chunk is looked at
\* or processed is the number of files of the jobs before it in the queue:
\* it depends on the queue and the chunk alone, so a run that skipped k chunks
\* uses for every later chunk the offset, and the deprioritized indices, of a
\* run that processed them.
C18_SkipResume ==
    (Queued /\ (pc = "loop" \/ pc \in ChunkPcs)) =>
      /\ offset = OffsetBefore(jobIdx)
      /\ skipped = IF skip >= jobIdx - 1 THEN skip - (jobIdx - 1) ELSE 0

\* The third chunk is processed after two chunks were skipped.
C18_Witness ==
    /\ skip = 2
    /\ jobIdx = 3
    /\ pc = "prio"
    /\ offset = 2
    /\ issued[1] = {}
    /\ issued[2] = {}

C20_FatalErrorEndsRun ==
    /\ [](Failed => pc = "done")
    /\ [][(~Failed /\ Failed') =>
            /\ agentJobs' = agentJobs
            /\ offset' = offset
            /\ jobIdx' = jobIdx
            /\ returned' = returned]_vars
    /\ [][Failed =>
            UNCHANGED <<result, issued, returned, agentVars, child, offset,
                        jobIdx>>]_vars

\* The download of the second chunk failed: its job is left in the agent and
\* nothing was issued for the third chunk or for seeding.
C20_Witness ==
    /\ result = "QbitTorrentErrored"
    /\ pc = "done"
    /\ agentJobs = {2}
    /\ "delete" \in returned[1]
    /\ Len(queue.job) = 3
    /\ issued[3] = {}
    /\ issued[SeedJob] = {}
    /\ seed_enable

\* ------------------------- seed-back, monitor, agent and retry claims
JobsOfQueue == 1..Len(queue.job)
SkippedOrDeleted(j) ==
    \/ issued[queue.job[j].chunk] = {}
    \/ "delete" \in returned[queue.job[j].chunk]

\* C21: with seeding enabled the whole pack is submitted only after every
\* chunk was skipped or deleted and after the settle wait, with hash checking
\* skipped and the mount path as save path, and it is resumed only after that
\* add returned; with seeding disabled the seed job gets no command and the
\* step after the last delete issues none.
C21_SeedBack ==
    /\ [](issued[SeedJob] # {} =>
            /\ seed_enable
            /\ Queued
            /\ jobIdx > Len(queue.job)
            /\ \A j \in JobsOfQueue : SkippedOrDeleted(j))
    /\ []("add" \in issued[SeedJob] =>
            /\ added.skip_checking = "true"
            /\ added.savepath = "seed_path")
    /\ []("share" \in issued[SeedJob] => "add" \in returned[SeedJob])
    /\ []("resume" \in issued[SeedJob] =>
            {"add", "share"} \subseteq returned[SeedJob])
    /\ [](pc = "done" /\ result = "Ok" /\ seed_enable =>
            /\ {"add", "share", "resume"} \subseteq returned[SeedJob]
            /\ agentRunning)
    /\ [][issued'[SeedJob] # issued[SeedJob] /\ issued[SeedJob] = {} =>
            /\ pc = "seed_add"
            /\ issued'[SeedJob] = {"add"}]_vars
    /\ [][pc' = "seed_add" /\ pc # "seed_add" => pc = "seed_wait"]_vars
    /\ [][pc' = "seed_wait" /\ pc # "seed_wait" => pc = "seed" /\ seed_enable]_vars
    /\ [][pc = "seed" /\ ~seed_enable =>
            /\ pc' = "done"
            /\ result' = "Ok"
            /\ UNCHANGED <<issued, added, agentVars>>]_vars

\* A run that skipped one chunk, deleted another and then seeded the pack.
C21_Witness ==
    /\ pc = "done"
    /\ result = "Ok"
    /\ seed_enable
    /\ "resume" \in returned[SeedJob]
    /\ added = seed_config
    /\ \E j \in JobsOfQueue : issued[queue.job[j].chunk] = {}
    /\ \E j \in JobsOfQueue : "delete" \in returned[queue.job[j].chunk]

\* C22: every Chunk of every Queue has a file count of at least 1, also under
\* the force policy with every file Excluded and for an empty pack.
C22_FileCountPositive ==
    Queued => \A j \in JobsOfQueue : queue.job[j].no_files >= 1

\* C23: build_queue yields exactly one Chunk per chunk index the plan uses,
\* numbered 1..n in order, Chunk k carrying the count and the total length of
\* the files the plan assigns to k, and the Queue's total file count is the
\* number of files of the pack, Excluded ones included.
C23_OneChunkPerIndex ==
    Queued =>
      /\ Len(queue.job) = Cardinality(UsedChunks)
      /\ \A j \in JobsOfQueue :
           /\ queue.job[j].chunk = j
           /\ j \in UsedChunks
           /\ queue.job[j].no_files = Cardinality(FilesOfChunk(j))
           /\ queue.job[j].total_size = SumSet(FilesOfChunk(j), LengthAt)
      /\ queue.no_all_files = NFiles

\* A step of upload that read a line, and the line it read.
ReadsLine == pc = "up_read" /\ nLines' = nLines + 1
Qualifies(l) ==
    l.marker /\ l.valid /\ l.has_stats /\ l.has_speed /\ l.speed > 0
\* A line without the marker, and a marked record without stats, without
\* speed, or with speed 0.
LeftAlone(l) ==
    \/ ~l.marker
    \/ l.marker /\ l.valid /\ (~l.has_stats \/ ~l.has_speed \/ l.speed = 0)

\* C24: over any sequence of lines read during one upload, the position the
\* progress readout shows never decreases from one update to the next.
C24_ReadoutMonotone == [][up_position' >= up_position]_vars

\* C25: the readout changes only on a line that has the marker, carries a
\* stats record and reports speed > 0; a line without the marker, a marked
\* record without stats or without speed, and a marked record with speed 0
\* leave the readout as it was and the upload goes on reading, to return Ok.
C25_ReadoutFrame ==
    /\ [][up_position' # up_position => ReadsLine /\ Qualifies(last_line')]_vars
    /\ [][ReadsLine /\ LeftAlone(last_line') =>
            /\ up_position' = up_position
            /\ pc' = "up_read"
            /\ upRet' = "none"]_vars
    /\ [][ReadsLine /\ Qualifies(last_line') =>
            up_position' = last_line'.bytes]_vars
    /\ [](upRet \in {"none", "Ok", "CommandSpawningError"})
    /\ [](upRet = "CommandSpawningError" => nLines = 0)

\* After a line moved the readout, a marked record with speed 0 that reports
\* other bytes was read and the readout stayed.
C25_Witness ==
    /\ pc = "up_read"
    /\ nLines = 2
    /\ up_position > 0
    /\ last_line.marker /\ last_line.valid /\ last_line.has_stats
    /\ last_line.has_speed /\ last_line.speed = 0
    /\ last_line.bytes # up_position

C27_ErrorOnNon2xx ==
    http.op # "none" /\ ~Is2xx(http.status) => http.ret # "Ok"

\* C28: the retry counter belongs to one call of download: every call starts
\* with no recovery used, whatever earlier calls consumed, so a chunk that
\* follows one that recovered still has its 3 recoveries and fails on an
\* error state only after it used all 3 itself.
C28_RetryPerInvocation ==
    /\ [][pc = "dl_start" => retry' = RetryStart]_vars
    /\ [](pc = "dl_poll" /\ "poll" \notin issued[Job.chunk] =>
            retry = RetryStart /\ MayRetry(retry + 2) /\ ~MayRetry(retry + 3))
    /\ [](pc = "dl_ret" /\ state \in ErrorStates /\ dlRet = "QbitTorrentErrored"
            => retry = RetryStart + 3)

\* A later chunk that used its 3 recoveries after an earlier chunk recovered.
C28_Witness ==
    /\ spent
    /\ jobIdx >= 2
    /\ pc = "dl_poll"
    /\ retry = RetryStart + 3

\* C29: in one call of download the error and missingFiles states draw on one
\* budget of 3 recoveries that only shrinks: whatever other states the polls
\* see in between, every poll that sees either state and does not end the
\* call uses one recovery, at most 3 recovery resumes are issued for the two
\* states together, and the 4th poll that sees either of them returns
\* QbitTorrentErrored.
C29_SharedBudget ==
    /\ [](ErrRec <= RetryLimit /\ retry - RetryStart <= RetryLimit)
    /\ [](ErrRec <= retry - RetryStart)
    /\ [](pc = "dl_poll" => ErrObs = retry - RetryStart /\ ErrRec = ErrObs)
    /\ [](ErrObs <= RetryLimit + 1)
    /\ [](ErrObs = RetryLimit + 1 =>
            pc = "dl_ret" /\ dlRet = "QbitTorrentErrored" /\ ErrRec = RetryLimit)
    /\ [](dlRet = "QbitTorrentErrored" /\ state \in ErrorStates =>
            ErrObs = RetryLimit + 1)
    /\ [][retry' >= retry /\ ErrRec' >= ErrRec]_vars

\* Two polls saw error and two saw missingFiles, with a recovery from a
\* paused state in between, and the fourth of them was fatal.
C29_Witness ==
    /\ nObs["error"] = 2
    /\ nObs["missingFiles"] = 2
    /\ nRec["pausedDL"] >= 1
    /\ ~onlyErr
    /\ state \in ErrorStates
    /\ dlRet = "QbitTorrentErrored"

\* C30: in the recovery of pausedDL (and of unknown) the steps are, in this
\* order, the resume of the job, the wait of 5 seconds and the re-check of the
\* job's state: when the re-check is made the wait has followed the resume.
C30_ResumeWaitRecheck ==
    /\ pc = "dl_rec_check" => recLog = <<"resume", "sleep">>
    /\ Len(recLog) = 3 => recLog = <<"resume", "sleep", "check">>

\* ------------------------------------------- recovery and ordering claims
\* The step of download that queries the job's state.
Queries == pc \in {"dl_poll", "dl_rec_check"}

\* C31: every recovery (for error, missingFiles, pausedDL and unknown) issues
\* a resume before the next query of the job's state: a recovery leaves its
\* wait only for its resume, only a resume that returned Ok leads to a query,
\* and at every query each earlier poll that started a recovery has had its
\* resume.
C31_ResumeBeforeQuery ==
    /\ [][pc = "dl_rec_sleep" =>
            pc' = "dl_rec_resume" /\ issued' = issued]_vars
    /\ [][pc = "dl_rec_resume" =>
            /\ recLog' = <<"sleep", "resume">>
            /\ \/ pc' = "dl_rec_check" /\ recState \in RetryOnceStates
               \/ pc' = "dl_poll" /\ recState \in ErrorStates
               \/ pc' = "dl_ret" /\ dlRet' = "ReqErr"
            /\ pc' # "dl_ret" => nRec'[recState] = nRec[recState] + 1]_vars
    /\ [](Queries => \A s \in RecoveryStates : nRec[s] = nObs[s])
    /\ [](pc = "dl_rec_check" => recLog = <<"sleep", "resume">>)

\* A query made after one recovery of each of the four states.
C31_Witness ==
    /\ pc = "dl_poll"
    /\ \A s \in RecoveryStates : nObs[s] >= 1 /\ nRec[s] = nObs[s]

\* The chunk open when the planner reaches file i, and the bytes it holds then.
ChunkBefore(i) ==
    LET used == {ChunkOfFile(j) : j \in 1..(i - 1)} \ {Excluded}
    IN IF used = {} THEN FirstChunk ELSE MaxOf(used)
SumBefore(i) ==
    SumSet({j \in 1..(i - 1) : ChunkOfFile(j) = ChunkBefore(i)}, LengthAt)
ExactFit(i) == SumBefore(i) + LengthAt[i] = max_size_allow

\* C32: a file as long as the budget is not Excluded, and a file that brings
\* the open chunk exactly to the budget goes to that chunk, last file or not:
\* a file moves to the next chunk only when the sum would exceed the budget.
C32_ExactFit ==
    Planned =>
      \A i \in Positions :
        /\ LengthAt[i] = max_size_allow => ChunkOfFile(i) # Excluded
        /\ ChunkOfFile(i) # Excluded =>
             /\ ExactFit(i) => ChunkOfFile(i) = ChunkBefore(i)
             /\ ChunkOfFile(i) # ChunkBefore(i) =>
                  /\ ChunkOfFile(i) = ChunkBefore(i) + 1
                  /\ SumBefore(i) + LengthAt[i] > max_size_allow

\* The last file brings a chunk that already holds bytes exactly to the
\* budget, and a file before it was an exact fit for its chunk too.
C32_Witness ==
    /\ Planned
    /\ NFiles >= 3
    /\ ExactFit(NFiles) /\ SumBefore(NFiles) > 0
    /\ ChunkOfFile(NFiles) = ChunkBefore(NFiles)
    /\ \E i \in 1..(NFiles - 1) :
         ExactFit(i) /\ LengthAt[i] > 0 /\ ChunkOfFile(i) = ChunkBefore(i)

\* The indices disable_others lists for the chunk being processed.
IdsOfJob == DisableOthersIds(Job.no_files, offset, queue.no_all_files)

\* C33: when no index lies outside the chunk's window, disable_others yields
\* no list, no set-priority command is issued and the chunk goes on to its
\* download without a failure; otherwise one set-priority command is issued
\* that gives priority 0 to exactly the indices outside the window.
C33_EmptySetNoCommand ==
    /\ [][pc = "prio" /\ IdsOfJob = {} =>
            /\ pc' = "dl_start"
            /\ UNCHANGED <<result, issued, returned, agentVars>>]_vars
    /\ [][pc = "prio" /\ IdsOfJob # {} =>
            /\ issued' = [issued EXCEPT ![Job.chunk] = @ \cup {"prio"}]
            /\ \/ pc' = "dl_start" /\ agentEnabled' = agentEnabled \ IdsOfJob
               \/ pc' = "done" /\ result' = "ReqErr"
                    /\ agentEnabled' = agentEnabled]_vars

\* C34: every chunk's job is added paused and its first resume is issued only
\* after the set-priority command for the indices outside its window returned
\* success (no command is needed when no index lies outside), so the job never
\* runs while a file outside the window has a priority other than 0.
C34_PausedUntilPrioritySet ==
    /\ [](pc \in ChunkPcs /\ "add" \in returned[Job.chunk] =>
            added.paused = "true")
    /\ [](pc \in ChunkPcs /\ "resume" \in issued[Job.chunk] =>
            "prio" \in returned[Job.chunk] \/ IdsOfJob = {})
    /\ [](pc \in ChunkPcs /\ agentRunning =>
            agentEnabled \subseteq Window(Job.no_files, offset))
    /\ [][~agentRunning /\ agentRunning' /\ pc \in ChunkPcs =>
            (pc = "dl_start" /\
             ("prio" \in returned[Job.chunk] \/ IdsOfJob = {}))]_vars

\* The job of a second chunk is running with only the files of its window
\* enabled.
C34_Witness ==
    /\ pc = "dl_poll"
    /\ jobIdx = 2
    /\ agentRunning
    /\ "prio" \in returned[Job.chunk]
    /\ agentEnabled = Window(Job.no_files, offset)
    /\ agentEnabled # FileIndices

\* C35: the position download sets on its progress bar lies in
\* [0, total_size of the chunk] for every amount_left the agent reports, also
\* one larger than total_size: no negative difference becomes a huge unsigned
\* position.
C35_PositionWithinChunk ==
    pc \in {"dl_poll", "dl_rec_sleep", "dl_rec_resume", "dl_rec_check", "dl_ret"}
      => /\ pb_position.wraps = 0
         /\ pb_position.rem >= 0
         /\ pb_position.rem <= Job.total_size

\* Non-Excluded files i < j with no non-Excluded file between them.
NextNonExcluded(i, j) ==
    /\ i \in NonExcluded /\ j \in NonExcluded /\ i < j
    /\ \A m \in NonExcluded : ~(i < m /\ m < j)

\* C36: along the pack's file order the chunk indices of the non-Excluded
\* files never decrease and grow by at most 1 from one non-Excluded file to
\* the next, so the files of a chunk are one run of the non-Excluded files.
C36_OrderPreserving ==
    Planned =>
      /\ \A i, j \in NonExcluded : i < j => ChunkOfFile(i) <= ChunkOfFile(j)
      /\ \A i, j \in Positions :
           NextNonExcluded(i, j) => ChunkOfFile(j) <= ChunkOfFile(i) + 1
      /\ \A k \in UsedChunks : \A i, j \in FilesOfChunk(k) :
           \A m \in NonExcluded : (i < m /\ m < j) => ChunkOfFile(m) = k

\* A plan with an Excluded file between two files of consecutive chunks.
C36_Witness ==
    /\ Planned
    /\ \E i, j \in Positions :
         /\ NextNonExcluded(i, j)
         /\ j > i + 1
         /\ ChunkOfFile(j) = ChunkOfFile(i) + 1

\* The first file of chunk k, and the bytes of all files of chunk k.
MinOf(S) == CHOOSE x \in S : \A y \in S : x <= y
FirstFileOf(k) == MinOf(FilesOfChunk(k))
BytesOfChunk(k) == SumSet(FilesOfChunk(k), LengthAt)

\* C37: a chunk is opened only when forced: for consecutive chunks k and k + 1
\* of a plan, the bytes placed in chunk k (all of them precede chunk k + 1)
\* plus the length of the first file of chunk k + 1 exceed the budget.
C37_OpenedOnlyWhenForced ==
    Planned =>
      \A k \in UsedChunks :
        (k + 1) \in UsedChunks =>
          /\ \A i \in FilesOfChunk(k) : i < FirstFileOf(k + 1)
          /\ BytesOfChunk(k) + LengthAt[FirstFileOf(k + 1)] > max_size_allow

\* A plan of three chunks, the second of which holds less than the budget.
C37_Witness ==
    /\ Planned
    /\ {1, 2, 3} \subseteq UsedChunks
    /\ BytesOfChunk(2) < max_size_allow

\* C38: when the agent's answer to a status query holds no job (an empty
\* list), get_torrent_info returns QbitEmptyTorrentInfo and download returns
\* that error at once, from the poll of the loop as from the re-check of a
\* recovery, without a retry or a resume.
C38_EmptyInfoIsFatal ==
    /\ [](\A st \in HttpStatuses :
            get_torrent_info(st, "empty_list") = "QbitEmptyTorrentInfo")
    /\ []("QbitEmptyTorrentInfo" \in QueryErrors)
    /\ [](dlRet = "QbitEmptyTorrentInfo" => pc = "dl_ret")
    /\ [][dlRet' = "QbitEmptyTorrentInfo" /\ dlRet = "none" =>
            /\ Queries
            /\ issued' = [issued EXCEPT ![Job.chunk] = @ \cup {"poll"}]
            /\ UNCHANGED <<retry, nRec, nObs, returned, agentVars>>]_vars

\* The re-check of a recovery found no job, after an error recovery.
C38_Witness ==
    /\ dlRet = "QbitEmptyTorrentInfo"
    /\ recState \in RetryOnceStates
    /\ nRec[recState] = 1
    /\ ErrRec >= 1

\* C39: when skip is at least the number of chunks of the queue, every chunk
\* is skipped: no command and no upload is issued for any chunk, the run does
\* not fail before the seed-back step, which is performed when seeding is
\* enabled, and the run returns Ok (unless a command of the seed-back fails).
C39_AllChunksSkipped ==
    (Queued /\ skip >= Len(queue.job)) =>
      /\ pc # "panic"
      /\ \A j \in JobsOfQueue : issued[queue.job[j].chunk] = {}
      /\ pc \notin ChunkPcs
      /\ (pc = "done" /\ ~seed_enable) => result = "Ok" /\ issued[SeedJob] = {}
      /\ (pc = "done" /\ seed_enable) =>
           /\ "add" \in issued[SeedJob]
           /\ result \in {"Ok", "ReqErr"}
           /\ result = "Ok" => "resume" \in returned[SeedJob]

\* ---------------------------------------------------- termination claim
PlanReturned == pc = "queue"
Unskipped(j) == j \in JobsOfQueue /\ j > skip
InOrder == pc' \in ChunkPcs /\ jobIdx' # jobIdx => jobIdx' = jobIdx + 1

\* C40: when every agent command succeeds, every upload subprocess ends and
\* the agent comes to report a complete-side state for each unskipped chunk,
\* a run whose pack was planned never aborts, ends, ends with Ok, and has by
\* then taken every unskipped chunk once, in increasing order, up to its
\* delete.
C40_TerminatesWithOk ==
    /\ [](pc # "panic")
    /\ []((pc = "done" /\ Planned) =>
            /\ result = "Ok"
            /\ \A j \in JobsOfQueue :
                 Unskipped(j) => "delete" \in returned[queue.job[j].chunk])
    /\ [][InOrder]_vars
    /\ PlanReturned ~> (pc = "done" /\ result = "Ok")

====
